---- MODULE Spec2Model ----
(***************************************************************************)
(* The assembler boundary of rvemu-bindings: riscv_assemble and            *)
(* free_riscv_assemble (src/rvemu-c-bindings/rvemu-bindings/src/lib.rs).   *)
(*                                                                         *)
(* A text is a sequence of characters.  The characters that the code       *)
(* treats specially are modelled one to one (space, carriage return, line  *)
(* feed, colon, a byte that is not valid UTF-8); every other model         *)
(* character ("add", "L1", ...) stands for a run of ordinary characters,   *)
(* which replace / split / trim / contains / split_whitespace never cut.   *)
(***************************************************************************)
EXTENDS Integers, Sequences, FiniteSets, TLC

\* ------------------------------------------------------------------ bounds
MaxText  == 3     \* longest free-form source text, in characters
MaxLines == 3     \* most raw lines of a source built from line templates
MaxCalls == 1     \* calls of riscv_assemble in one run

\* -------------------------------------------------------------- characters
SP    == " "
CR    == "\r"
LF    == "\n"
COLON == ":"
XFF   == "0xFF"   \* a byte that is no valid UTF-8

\* char::is_whitespace, restricted to the model's characters
Whitespace == {SP, CR, LF}

\* CString::into_string succeeds iff the bytes are valid UTF-8
IsUtf8(s) == \A k \in 1..Len(s) : s[k] # XFF

\* ------------------------------------------------------- string operations
RECURSIVE ReplaceCRLF(_)
\* str::replace("\r\n", "\n"): left to right, non-overlapping
ReplaceCRLF(s) ==
  IF s = <<>> THEN <<>>
  ELSE IF Len(s) >= 2 /\ s[1] = CR /\ s[2] = LF
       THEN <<LF>> \o ReplaceCRLF(SubSeq(s, 3, Len(s)))
       ELSE <<s[1]>> \o ReplaceCRLF(Tail(s))

RECURSIVE Split(_, _)
\* str::split(c): the pieces between occurrences of c, empty pieces kept
Split(s, c) ==
  IF \A k \in 1..Len(s) : s[k] # c THEN <<s>>
  ELSE LET p == CHOOSE k \in 1..Len(s) :
                  s[k] = c /\ \A j \in 1..(k-1) : s[j] # c
       IN <<SubSeq(s, 1, p-1)>> \o Split(SubSeq(s, p+1, Len(s)), c)

RECURSIVE TrimStart(_)
TrimStart(s) ==
  IF s # <<>> /\ s[1] \in Whitespace THEN TrimStart(Tail(s)) ELSE s

RECURSIVE TrimEnd(_)
TrimEnd(s) ==
  IF s # <<>> /\ s[Len(s)] \in Whitespace
  THEN TrimEnd(SubSeq(s, 1, Len(s)-1)) ELSE s

\* str::trim
Trim(s) == TrimEnd(TrimStart(s))

\* str::contains(c)
Contains(s, c) == \E k \in 1..Len(s) : s[k] = c

NonEmpty(s) == s # <<>>

\* Iterator::map over a vector of strings
MapTrim(ss) == [k \in 1..Len(ss) |-> Trim(ss[k])]

\* a faulty normalizer: lines are trimmed at the front only
NormalizeTrimStartOnly(text) ==
  SelectSeq([k \in 1..Len(Split(ReplaceCRLF(text), LF)) |->
               TrimStart(Split(ReplaceCRLF(text), LF)[k])], NonEmpty)

\* lines 146-151: replace, split('\n'), trim, filter(!is_empty), collect
Normalize(text) ==
  SelectSeq(MapTrim(Split(ReplaceCRLF(text), LF)), NonEmpty)

RECURSIVE SplitWhitespace(_)
\* str::split_whitespace: the maximal runs of non-whitespace characters
SplitWhitespace(s) ==
  LET t == TrimStart(s) IN
  IF t = <<>> THEN <<>>
  ELSE IF \A k \in 1..Len(t) : t[k] \notin Whitespace THEN <<t>>
  ELSE LET p == CHOOSE k \in 1..Len(t) :
                  t[k] \in Whitespace /\ \A j \in 1..(k-1) : t[j] \notin Whitespace
       IN <<SubSeq(t, 1, p-1)>> \o SplitWhitespace(SubSeq(t, p+1, Len(t)))

\* ------------------------------------------------------------ the encoder
\* The values eval() can give for one wrapped instruction (lines 201-218):
\* Err(..), Ok(Value::String(digits)), Ok(a value that is no string).
EvalErr     == [kind |-> "Err",    s |-> <<>>]
EvalStr(d)  == [kind |-> "String", s |-> d]
EvalNull    == [kind |-> "Null",   s |-> <<>>]

Nibble(n) ==
  << IF (n \div 8) % 2 = 1 THEN "1" ELSE "0",
     IF (n \div 4) % 2 = 1 THEN "1" ELSE "0",
     IF (n \div 2) % 2 = 1 THEN "1" ELSE "0",
     IF n % 2 = 1 THEN "1" ELSE "0" >>

RECURSIVE BinDigits(_)
\* the binary digit string of a word given by its hexadecimal digits
BinDigits(hex) ==
  IF hex = <<>> THEN <<>> ELSE Nibble(hex[1]) \o BinDigits(Tail(hex))

\* add x1,x2,x3 = 0x003100B3 ; lui x1,0xFFFFF = 0xFFFFF0B7
WordAdd == BinDigits(<<0, 0, 3, 1, 0, 0, 11, 3>>)
WordLui == BinDigits(<<15, 15, 15, 15, 15, 0, 11, 7>>)
\* 33 binary digits with a leading 1: no 32-bit word
WordWide == <<"1">> \o WordAdd

\* new Instruction(text, {ISA: RV32I}).bin in encoder/Instruction.js, as the
\* interface gives it: a 32-digit binary string, or an encoding error.  The
\* mnemonic (first token) decides; "odd" and "nul" stand for an encoder that
\* breaks its interface.
Encode(text) ==
  LET t == SplitWhitespace(text) IN
  IF t = <<>> THEN EvalErr
  ELSE IF t[1] = <<"add">> THEN EvalStr(WordAdd)
  ELSE IF t[1] = <<"lui">> THEN EvalStr(WordLui)
  ELSE IF t[1] = <<"odd">> THEN EvalStr(WordWide)
  ELSE IF t[1] = <<"nul">> THEN EvalNull
  ELSE EvalErr

\* ------------------------------------------------------------ u32 parsing
\* A u32 is kept as its two 16-bit halves.
U32Zero == [hi |-> 0, lo |-> 0]

RECURSIVE ParseDigits(_, _)
\* the digit loop of u32::from_str_radix(_, 2): checked_mul(2) then
\* checked_add(digit); an invalid digit or an overflow is an Err
ParseDigits(s, acc) ==
  IF s = <<>> THEN [ok |-> TRUE, v |-> acc]
  ELSE IF s[1] \notin {"0", "1"} THEN [ok |-> FALSE, v |-> U32Zero]
  ELSE LET d  == IF s[1] = "1" THEN 1 ELSE 0
           lo == acc.lo * 2 + d
           hi == acc.hi * 2 + (lo \div 65536)
       IN IF hi >= 65536 THEN [ok |-> FALSE, v |-> U32Zero]
          ELSE ParseDigits(Tail(s), [hi |-> hi, lo |-> lo % 65536])

\* u32::from_str_radix(s, 2)
FromStrRadix2(s) ==
  IF s = <<>> THEN [ok |-> FALSE, v |-> U32Zero]
  ELSE IF s[1] = "+"
       THEN IF Len(s) = 1 THEN [ok |-> FALSE, v |-> U32Zero]
            ELSE ParseDigits(Tail(s), U32Zero)
       ELSE ParseDigits(s, U32Zero)

\* u32::to_le_bytes
ToLeBytes(w) == << w.lo % 256, w.lo \div 256, w.hi % 256, w.hi \div 256 >>

\* ------------------------------------------------------------- the inputs
\* free-form texts: every sequence of these characters up to MaxText
TextChars == {SP, CR, LF, COLON, "add", "nul", XFF}
FreeTexts == UNION {[1..n -> TextChars] : n \in 0..MaxText}

\* raw lines of the longer programs
LineTemplates ==
  { <<SP>>, <<SP, "add", SP, "x1">>, <<"lui">>, <<"BAD">>, <<"odd">>,
    <<"L1", COLON>>, <<"bne", SP, "x1", SP, "L1">> }

RECURSIVE Join(_, _)
Join(ls, term) ==
  IF Len(ls) = 0 THEN <<>>
  ELSE IF Len(ls) = 1 THEN ls[1]
  ELSE ls[1] \o term \o Join(Tail(ls), term)

Programs ==
  { Join(ls, term) :
      ls \in UNION {[1..n -> LineTemplates] : n \in 1..MaxLines},
      term \in {<<LF>>, <<CR, LF>>} }

Sources == FreeTexts \cup Programs

\* --------------------------------------------------------------- the state
VARIABLES
  pc,                    \* "idle", "pass1", "pass2", "returned", "panicked", "crashed"
  ncalls,                \* calls of riscv_assemble begun
  instruction,           \* the text behind the instruction argument
  setupOk,               \* whether eval of Instruction.js succeeded
  instrs,                \* Vec<String>: the normalized lines
  instructions_filtered, \* Vec<&str>
  labels,                \* HashMap<&str, usize>, as a set of <<name, offset>>
  i,                     \* lines consumed by the running loop
  instr_memory,          \* Vec<u8>
  error_line,            \* *error_line
  out,                   \* *out
  ret,                   \* the returned length, -1 while none
  evals,                 \* the instruction texts handed to eval, in order
  panic,                 \* the message of the panic, "" if none
  heap,                  \* the live allocations: records [id, size]
  owned,                 \* buffers the caller holds and has not released
  frees,                 \* every deallocation: [ptr, layout, block]
  cpu_pc,                \* emu.cpu.pc, as its offset from DRAM_BASE
  executed_instruction,  \* *executed_instruction, a u32 in 16-bit halves
  exec_result,           \* what the last cpu.execute() gave
  nsteps                 \* calls of emulator_cpu_execute made

vars == << pc, ncalls, instruction, setupOk, instrs, instructions_filtered,
           labels, i, instr_memory, error_line, out, ret, evals, panic,
           heap, owned, frees,
           cpu_pc, executed_instruction, exec_result, nsteps >>

\* the emulator side of the state
emu_vars == << cpu_pc, executed_instruction, exec_result, nsteps >>

\* pointers
Unset      == [kind |-> "unset",    id |-> 0]   \* *out as the caller left it
Dangling   == [kind |-> "dangling", id |-> 0]   \* NonNull::dangling(): no allocation
BlockPtr(n) == [kind |-> "block",   id |-> n]

\* the live block behind a pointer, as a set of at most one record
BlockAt(h, p) == {b \in h : p.kind = "block" /\ b.id = p.id}

\* HashMap::get
LabelsGet(m, name) == {e \in m : e[1] = name}
\* HashMap::insert
LabelsInsert(m, name, off) == {e \in m : e[1] # name} \cup {<<name, off>>}

\* ------------------------------------------------------------ the emulator
\* rvemu::exception::Exception, as emulator_cpu_execute matches it
EcallFaults ==
  {"EnvironmentCallFromMMode", "EnvironmentCallFromSMode", "EnvironmentCallFromUMode"}
OtherFaults ==
  {"InstructionAddressMisaligned", "InstructionAccessFault", "IllegalInstruction",
   "Breakpoint", "LoadAddressMisaligned", "LoadAccessFault",
   "StoreAMOAddressMisaligned", "StoreAMOAccessFault", "InstructionPageFault",
   "LoadPageFault", "StoreAMOPageFault"}

\* a small number as a u32 (16-bit halves)
U32(n) == [hi |-> n \div 65536, lo |-> n % 65536]

\* a u64 is kept as its four 16-bit limbs, w3 the most significant
U64(w3, w2, w1, w0) == [w3 |-> w3, w2 |-> w2, w1 |-> w1, w0 |-> w0]

\* v as u32: the low 32 bits
AsU32(v) == [hi |-> v.w1, lo |-> v.w0]

\* What cpu.execute() can give: Ok(the instruction word it fetched and ran),
\* having advanced pc by the instruction's length, or Err(exception) with pc
\* left alone.  The words: addi x0,x0,0 (nop) = 0x00000013,
\* add x1,x2,x3 = 0x003100B3, lui x1,0xFFFFF = 0xFFFFF0B7, c.nop = 0x0001.
ExecOk(v, adv) == [kind |-> "Ok", v |-> v, adv |-> adv, err |-> ""]
ExecErr(e)     == [kind |-> "Err", v |-> U64(0, 0, 0, 0), adv |-> 0, err |-> e]
ExecOutcomes ==
  { ExecOk(U64(0, 0, 0, 19), 4), ExecOk(U64(0, 0, 49, 179), 4),
    ExecOk(U64(0, 0, 65535, 61623), 4), ExecOk(U64(0, 0, 0, 1), 2) }
  \cup {ExecErr(e) : e \in EcallFaults \cup OtherFaults}

\* no call of emulator_cpu_execute has been made
NoExec == [kind |-> "none", v |-> U64(0, 0, 0, 0), adv |-> 0, err |-> "", pc0 |-> 0]

Init ==
  /\ pc = "idle"
  /\ ncalls = 0
  /\ instruction = <<>>
  /\ setupOk = TRUE
  /\ instrs = <<>>
  /\ instructions_filtered = <<>>
  /\ labels = {}
  /\ i = 0
  /\ instr_memory = <<>>
  /\ error_line = 0
  /\ out = Unset
  /\ ret = -1
  /\ evals = <<>>
  /\ panic = ""
  /\ heap = {}
  /\ owned = {}
  /\ frees = <<>>
  /\ cpu_pc = 0
  /\ executed_instruction = U32(0)
  /\ exec_result = NoExec
  /\ nsteps = 0

\* ------------------------------------------------------------- allocation
\* size_of::<u8>(): the layout Box<u8> is dropped with (line 112)
BoxU8Size == 1

\* the block behind this call's instr_memory, of n bytes (none when n = 0)
VecBlock(n) == IF n = 0 THEN {} ELSE {[id |-> ncalls, size |-> n]}

\* Vec::extend: the vector's block grows to hold the new length
VecExtend(h, old, new) == (h \ VecBlock(old)) \cup VecBlock(new)

\* drop of a Vec<u8> of n bytes: its block is deallocated with its own layout
VecDropLog(n) ==
  IF n = 0 THEN <<>>
  ELSE << [ptr |-> BlockPtr(ncalls), layout |-> n, block |-> n] >>

\* ---------------------------------------------------------------- actions
\* a faulty failing line: the 0-based loop index
FailingLineZeroBased(idx) == idx

\* line 185: *error_line = (i + 1)
FailingLine(idx) == idx + 1

\* lines 176-179: the text formatted into wrapped_instr is instr; the patched
\* tokens are not read again
EvalText(instr, tokens) == instr

\* lines 117-151: entry, input conversion, encoder set-up, normalization
riscv_assemble(txt, js) ==
  /\ ncalls' = ncalls + 1
  /\ UNCHANGED emu_vars
  /\ instruction' = txt
  /\ setupOk' = js
  /\ error_line' = 0
  /\ out' = Unset
  /\ instructions_filtered' = <<>>
  /\ labels' = {}
  /\ i' = 0
  /\ instr_memory' = <<>>
  /\ evals' = <<>>
  /\ IF ~IsUtf8(txt) \/ ~js
     THEN /\ pc' = "returned"
          /\ ret' = 0
          /\ instrs' = <<>>
     ELSE /\ pc' = "pass1"
          /\ ret' = -1
          /\ instrs' = Normalize(txt)
  /\ UNCHANGED << panic, heap, owned, frees >>

\* lines 153-162: one iteration of the label loop, or its exit
LabelPass ==
  /\ pc = "pass1"
  /\ UNCHANGED emu_vars
  /\ IF i < Len(instrs)
     THEN LET instr == instrs[i + 1] IN
          IF Contains(instr, COLON)
          THEN LET label_name == Split(instr, COLON)[1] IN
               IF LabelsGet(labels, label_name) = {}
               THEN /\ pc' = "panicked"
                    /\ panic' = "Label name not found."
                    /\ UNCHANGED << labels, instructions_filtered, i >>
               ELSE /\ labels' = LabelsInsert(labels, label_name,
                                              Len(instructions_filtered) * 4)
                    /\ i' = i + 1
                    /\ UNCHANGED << pc, panic, instructions_filtered >>
          ELSE /\ instructions_filtered' = Append(instructions_filtered, instr)
               /\ i' = i + 1
               /\ UNCHANGED << pc, panic, labels >>
     ELSE /\ pc' = "pass2"
          /\ i' = 0
          /\ UNCHANGED << panic, labels, instructions_filtered >>
  /\ UNCHANGED << ncalls, instruction, setupOk, instrs, instr_memory,
                  error_line, out, ret, evals, heap, owned, frees >>

\* lines 164-188: one iteration of the encoding loop
EncodePass ==
  /\ pc = "pass2"
  /\ UNCHANGED emu_vars
  /\ i < Len(instrs)
  /\ LET instr  == instrs[i + 1]
         tokens == SplitWhitespace(instr)
         isBne  == Len(tokens) > 0 /\ tokens[1] = <<"bne">>
         text   == EvalText(instr, tokens)
         r      == Encode(text)
         word   == FromStrRadix2(r.s)
         bytes  == instr_memory \o ToLeBytes(word.v)
     IN
     IF isBne /\ LabelsGet(labels, tokens[Len(tokens)]) = {}
     THEN /\ pc' = "panicked"
          /\ panic' = "label name not found 2."
          /\ UNCHANGED << i, instr_memory, error_line, ret, evals, heap, frees >>
     ELSE /\ evals' = Append(evals, text)
          /\ IF r.kind = "Err"
             THEN /\ error_line' = FailingLine(i)
                  /\ ret' = 0
                  /\ pc' = "returned"
                  /\ instr_memory' = <<>>
                  /\ heap' = heap \ VecBlock(Len(instr_memory))
                  /\ frees' = frees \o VecDropLog(Len(instr_memory))
                  /\ UNCHANGED << i, panic >>
             ELSE IF r.kind # "String"
             THEN /\ pc' = "panicked"
                  /\ panic' = "as_str: unwrap on None"
                  /\ UNCHANGED << i, instr_memory, error_line, ret, heap, frees >>
             ELSE IF ~word.ok
             THEN /\ pc' = "panicked"
                  /\ panic' = "from_str_radix: unwrap on Err"
                  /\ UNCHANGED << i, instr_memory, error_line, ret, heap, frees >>
             ELSE /\ instr_memory' = bytes
                  /\ heap' = VecExtend(heap, Len(instr_memory), Len(bytes))
                  /\ i' = i + 1
                  /\ UNCHANGED << pc, panic, error_line, ret, frees >>
  /\ UNCHANGED << ncalls, instruction, setupOk, instrs, instructions_filtered,
                  labels, out, owned >>

\* lines 190-198: the vector becomes a boxed slice, *out its address
BoxOutput ==
  /\ pc = "pass2"
  /\ UNCHANGED emu_vars
  /\ i = Len(instrs)
  /\ LET len == Len(instr_memory)
         ptr == IF len = 0 THEN Dangling ELSE BlockPtr(ncalls)
     IN /\ out' = ptr
        /\ ret' = len
        /\ owned' = owned \cup {[call |-> ncalls, ptr |-> ptr, len |-> len]}
  /\ pc' = "returned"
  /\ UNCHANGED << ncalls, instruction, setupOk, instrs, instructions_filtered,
                  labels, i, instr_memory, error_line, evals, panic, heap, frees >>

\* lines 107-114: Box::<u8>::from_raw(bytes) is dropped.  Deallocating with a
\* layout other than the block's, or an address that was never allocated, is
\* undefined: the allocator may free the block all the same, or the process
\* is corrupted ("crashed").
free_riscv_assemble(o) ==
  /\ o.ptr.kind # "null"
  /\ UNCHANGED emu_vars
  /\ owned' = owned \ {o}
  /\ LET blk == BlockAt(heap, o.ptr) IN
     /\ frees' = Append(frees,
                   [ptr |-> o.ptr, layout |-> BoxU8Size,
                    block |-> IF blk = {} THEN -1
                              ELSE (CHOOSE b \in blk : TRUE).size])
     /\ IF blk = {}
        THEN pc' = "crashed" /\ heap' = heap
        ELSE IF \A b \in blk : b.size = BoxU8Size
        THEN pc' = pc /\ heap' = heap \ blk
        ELSE \E whole \in BOOLEAN :
               IF whole THEN pc' = pc /\ heap' = heap \ blk
               ELSE pc' = "crashed" /\ heap' = heap
  /\ UNCHANGED << ncalls, instruction, setupOk, instrs, instructions_filtered,
                  labels, i, instr_memory, error_line, out, ret, evals, panic >>

\* the call has returned: its frame is gone, the caller goes on
ReturnToCaller ==
  /\ pc = "returned"
  /\ UNCHANGED emu_vars
  /\ pc' = "idle"
  /\ instruction' = <<>>
  /\ setupOk' = TRUE
  /\ instrs' = <<>>
  /\ instructions_filtered' = <<>>
  /\ labels' = {}
  /\ i' = 0
  /\ instr_memory' = <<>>
  /\ error_line' = 0
  /\ out' = Unset
  /\ ret' = -1
  /\ evals' = <<>>
  /\ UNCHANGED << ncalls, panic, heap, owned, frees >>

\* the caller invokes the assembler on some text
CallAssemble ==
  /\ pc = "idle"
  /\ ncalls < MaxCalls
  /\ \E txt \in Sources, js \in BOOLEAN : riscv_assemble(txt, js)

\* the caller releases a buffer it holds
CallRelease ==
  /\ pc = "idle"
  /\ \E o \in owned : free_riscv_assemble(o)

Next ==
  \/ CallAssemble
  \/ LabelPass
  \/ EncodePass
  \/ BoxOutput
  \/ ReturnToCaller
  \/ CallRelease

Spec == Init /\ [][Next]_vars

\* --------------------------------------------------- the emulator's step
MaxSteps == 3     \* calls of emulator_cpu_execute in one run

\* lines 60-73: the value written for a fault
FaultCode(e) ==
  CASE e \in EcallFaults -> 115
    [] e = "InstructionAddressMisaligned" -> 12
    [] e = "InstructionAccessFault" -> 13
    [] e = "IllegalInstruction" -> 14
    [] e = "Breakpoint" -> 15
    [] e = "LoadAddressMisaligned" -> 16
    [] e = "LoadAccessFault" -> 17
    [] e = "StoreAMOAddressMisaligned" -> 18
    [] e = "StoreAMOAccessFault" -> 19
    [] e = "InstructionPageFault" -> 20
    [] e = "LoadPageFault" -> 21
    [] e = "StoreAMOPageFault" -> 22

\* lines 47-81: one call, cpu.execute() giving r; the function returns 0
\* whatever happened
emulator_cpu_execute(r) ==
  /\ nsteps' = nsteps + 1
  /\ exec_result' = r @@ [pc0 |-> cpu_pc]
  /\ IF r.kind = "Ok"
     THEN /\ executed_instruction' = AsU32(r.v)
          /\ cpu_pc' = cpu_pc + r.adv
     ELSE IF r.err \in EcallFaults
     THEN /\ executed_instruction' = U32(FaultCode(r.err))
          /\ cpu_pc' = cpu_pc + 4
     ELSE /\ executed_instruction' = U32(FaultCode(r.err))
          /\ cpu_pc' = cpu_pc
  /\ UNCHANGED << pc, ncalls, instruction, setupOk, instrs, instructions_filtered,
                  labels, i, instr_memory, error_line, out, ret, evals, panic,
                  heap, owned, frees >>

\* the caller steps the CPU
CallExecute ==
  /\ nsteps < MaxSteps
  /\ \E r \in ExecOutcomes : emulator_cpu_execute(r)

NextEmu ==
  \/ CallExecute

SpecEmu == Init /\ [][NextEmu]_vars

\* ================================================================ claims
\* What the specification says of a source text, stated on the text itself
\* (by positions), not by the program's operations.

Min(S) == CHOOSE x \in S : \A y \in S : x <= y
Max(S) == CHOOSE x \in S : \A y \in S : x >= y

RECURSIVE Ascending(_)
Ascending(S) == IF S = {} THEN <<>> ELSE <<Min(S)>> \o Ascending(S \ {Min(S)})

\* the positions of the line feeds; a line starts at 1 and after each of them
LineFeeds(text)  == {k \in 1..Len(text) : text[k] = LF}
LineStarts(text) == {1} \cup {k + 1 : k \in LineFeeds(text)}

\* the last position of the line starting at a: before its terminator, which
\* is "\n" or "\r\n"
LineEnd(text, a) ==
  LET nxt == {k \in LineFeeds(text) : k >= a} IN
  IF nxt = {} THEN Len(text)
  ELSE IF Min(nxt) - 1 >= a /\ text[Min(nxt) - 1] = CR THEN Min(nxt) - 2
  ELSE Min(nxt) - 1

\* the line starting at a without its leading and trailing whitespace
TrimmedLine(text, a) ==
  LET ink == {k \in a..LineEnd(text, a) : text[k] \notin Whitespace} IN
  IF ink = {} THEN <<>> ELSE SubSeq(text, Min(ink), Max(ink))

\* the non-empty trimmed lines of a text, in order
RefLines(text) ==
  LET starts == Ascending(LineStarts(text)) IN
  SelectSeq([k \in 1..Len(starts) |-> TrimmedLine(text, starts[k])], NonEmpty)

IsBlank(text) == \A k \in 1..Len(text) : text[k] \in Whitespace

IsLabelLine(line) == \E k \in 1..Len(line) : line[k] = COLON
IsInstruction(line) == ~IsLabelLine(line)

\* the filtered instruction stream: the non-blank, non-label lines
FilteredStream(text) == SelectSeq(RefLines(text), IsInstruction)

\* the text before the first ':' of a label line
LabelNameOf(line) ==
  SubSeq(line, 1, Min({k \in 1..Len(line) : line[k] = COLON}) - 1)

\* the encoder gives a 32-bit word for the text
Accepted(text) ==
  /\ Encode(text).kind = "String"
  /\ Len(Encode(text).s) = 32
  /\ \A k \in 1..32 : Encode(text).s[k] \in {"0", "1"}

\* the value of eight binary digits of d, from position a
ByteAt(d, a) ==
  LET b(k) == IF d[a + k] = "1" THEN 1 ELSE 0 IN
  128 * b(0) + 64 * b(1) + 32 * b(2) + 16 * b(3) + 8 * b(4) + 4 * b(5) + 2 * b(6) + b(7)

\* the little-endian bytes of the word a 32-digit string denotes
RefLeBytes(d) == << ByteAt(d, 25), ByteAt(d, 17), ByteAt(d, 9), ByteAt(d, 1) >>

RECURSIVE RefProgram(_)
\* the bytes of a stream of accepted instructions
RefProgram(stream) ==
  IF stream = <<>> THEN <<>>
  ELSE RefLeBytes(Encode(stream[1]).s) \o RefProgram(Tail(stream))

\* the call of riscv_assemble has ended, by a return or by a panic
CallEnded == pc \in {"returned", "panicked"}
\* the input was a string and the encoder was set up
Entered == IsUtf8(instruction) /\ setupOk

\* C1: when the encoder rejects an instruction in pass 2, the call returns at
\* once: nothing later is handed to the encoder, the length is 0, no buffer
\* is handed out or left allocated, and failing_line is the 1-based position
\* of the first rejected instruction in the filtered instruction stream.
C1_RejectionStopsAtFailingLine ==
  \A k \in 1..Len(evals) :
    Encode(evals[k]).kind = "Err" =>
      /\ k = Len(evals)
      /\ pc = "returned"
      /\ ret = 0
      /\ out = Unset
      /\ instr_memory = <<>>
      /\ \A b \in heap : b.id # ncalls
      /\ error_line = k
      /\ k <= Len(FilteredStream(instruction))
      /\ FilteredStream(instruction)[k] = evals[k]
      /\ \A j \in 1..(k-1) : Encode(FilteredStream(instruction)[j]).kind # "Err"

\* C1 witness: the second of three instructions is rejected after the first
\* was encoded; the third is never handed to the encoder.
C1_Witness ==
  /\ pc = "returned"
  /\ error_line = 2
  /\ Len(instrs) = 3
  /\ Len(evals) = 2
  /\ Len(frees) = 1
  /\ ret = 0

\* C8: the normalizer never fails and yields the non-empty trimmed lines of
\* the input in order, "\r\n" and "\n" alike; a source of blank lines only
\* returns length 0 and failing_line 0 without any call of the encoder.
C8_NormalizerYieldsTrimmedLines ==
  /\ (pc \in {"pass1", "pass2"} \/ (CallEnded /\ Entered))
       => instrs = RefLines(instruction)
  /\ (pc = "panicked") => (panic # "" /\ i < Len(instrs))
  /\ ((pc \in {"pass1", "pass2"} \/ CallEnded) /\ IsBlank(instruction)) =>
       /\ pc \in {"pass1", "pass2", "returned"}
       /\ evals = <<>>
       /\ instr_memory = <<>>
       /\ pc = "returned" =>
            (ret = 0 /\ error_line = 0 /\ (out = Dangling \/ ~setupOk))

\* C8 witness: a returned call on a text of blank lines ended by "\r\n"
C8_Witness ==
  /\ pc = "returned"
  /\ IsBlank(instruction)
  /\ \E k \in 1..(Len(instruction) - 1) :
       instruction[k] = CR /\ instruction[k + 1] = LF
  /\ \E k \in 1..Len(instruction) : instruction[k] = SP
  /\ out = Dangling
  /\ ret = 0

\* C2: a source whose instructions the encoder all accepts assembles: the
\* call returns failing_line 0 and 4 * N bytes, the little-endian bytes of
\* the encoder's words in instruction order.
C2_AcceptedSourceAssembles ==
  LET stream == FilteredStream(instruction) IN
  (CallEnded /\ Entered /\ \A k \in 1..Len(stream) : Accepted(stream[k])) =>
    /\ pc = "returned"
    /\ error_line = 0
    /\ ret = 4 * Len(stream)
    /\ instr_memory = RefProgram(stream)
    /\ out # Unset

\* the lines the label loop has taken, the one it panicked on included
LabelPassTaken ==
  IF pc = "pass1" THEN i
  ELSE IF pc = "panicked" /\ panic = "Label name not found." THEN i + 1
  ELSE IF pc = "pass2" \/ (CallEnded /\ Entered) THEN Len(instrs)
  ELSE 0

\* 4 * the number of non-label lines among the first k - 1 lines
RefOffset(lines, k) ==
  4 * Cardinality({j \in 1..(k-1) : IsInstruction(lines[j])})

\* C3: label discovery records (text before ':', 4 * non-label lines before
\* it) for every label definition line it has taken (the latest definition
\* of a name), and appends exactly the other lines, verbatim.
C3_LabelPassRecordsOffsets ==
  LET n == LabelPassTaken IN
  /\ \A k \in 1..n :
       (/\ IsLabelLine(instrs[k])
        /\ \A j \in (k+1)..n :
             IsLabelLine(instrs[j]) => LabelNameOf(instrs[j]) # LabelNameOf(instrs[k]))
       => <<LabelNameOf(instrs[k]), RefOffset(instrs, k)>> \in labels
  /\ (pc \in {"pass1", "pass2"} \/ CallEnded) =>
       instructions_filtered = SelectSeq(SubSeq(instrs, 1, n), IsInstruction)

\* C4: a call that returns reports failing_line 0 exactly when it assembled
\* the whole program; every failure, an unreadable input and a failed encoder
\* set-up included, shows in the indicator.
C4_ZeroFailingLineIffSuccess ==
  pc = "returned" =>
    /\ error_line = 0 =>
         /\ Entered
         /\ out # Unset
         /\ ret = 4 * Len(FilteredStream(instruction))
    /\ error_line # 0 => (ret = 0 /\ out = Unset)

IsBne(line) ==
  LET t == SplitWhitespace(line) IN Len(t) > 0 /\ t[1] = <<"bne">>
LastToken(line) ==
  LET t == SplitWhitespace(line) IN t[Len(t)]

\* the label names the lines of a text define
DefinedLabels(text) ==
  {LabelNameOf(RefLines(text)[k]) :
     k \in {j \in 1..Len(RefLines(text)) : IsLabelLine(RefLines(text)[j])}}

\* C5: a bne naming a label that no line defines makes the call return with
\* empty output and failing_line its position; the encoder is not called for
\* it (the instructions before it were accepted).
C5_UndefinedLabelIsReported ==
  LET stream == FilteredStream(instruction) IN
  \A k \in 1..Len(stream) :
    (/\ CallEnded /\ Entered
     /\ IsBne(stream[k])
     /\ LastToken(stream[k]) \notin DefinedLabels(instruction)
     /\ \A j \in 1..(k-1) : Accepted(stream[j]))
    => /\ pc = "returned"
       /\ ret = 0
       /\ out = Unset
       /\ error_line = k
       /\ Len(evals) = k - 1

\* some label name is defined by two lines of the text
HasDuplicateLabel(text) ==
  \E j, k \in 1..Len(RefLines(text)) :
    /\ j < k
    /\ IsLabelLine(RefLines(text)[j]) /\ IsLabelLine(RefLines(text)[k])
    /\ LabelNameOf(RefLines(text)[j]) = LabelNameOf(RefLines(text)[k])

\* C6: a source that defines a label twice fails with no output, and the
\* first offset is never overwritten; a source that defines each label once
\* is not rejected by the look-up made at the definition.
C6_DuplicateLabelsOnlyAreRejected ==
  (CallEnded /\ Entered) =>
    /\ HasDuplicateLabel(instruction) =>
         /\ out = Unset
         /\ ret <= 0
         /\ \A e \in labels : e[2] = RefOffset(instrs,
              Min({k \in 1..Len(instrs) :
                     IsLabelLine(instrs[k]) /\ LabelNameOf(instrs[k]) = e[1]}))
    /\ ~HasDuplicateLabel(instruction) => panic # "Label name not found."

\* C7: no call ends other than by returning its (length, failing_line).
C7_EveryCallReturns ==
  pc # "panicked" /\ panic = ""

\* C9: every deallocation frees a whole live block with the size it was
\* allocated with; a failed call leaves nothing allocated, and every live
\* block belongs to a buffer the caller still holds.
C9_BuffersAreAccountedFor ==
  /\ \A k \in 1..Len(frees) : frees[k].block = frees[k].layout
  /\ (pc = "returned" /\ out = Unset) => \A b \in heap : b.id # ncalls
  /\ pc = "idle" => \A b \in heap : \E o \in owned :
                      o.ptr = BlockPtr(b.id) /\ o.len = b.size

DigitChar(d) == <<"0", "1", "2", "3", "4", "5", "6", "7", "8", "9">>[d + 1]
RECURSIVE Decimal(_)
Decimal(n) ==
  IF n < 10 THEN <<DigitChar(n)>> ELSE Decimal(n \div 10) \o <<DigitChar(n % 10)>>

\* the offset label discovery is to record for a name: that of its last
\* definition line
RefLabelOffset(text, name) ==
  RefOffset(RefLines(text),
    Max({k \in 1..Len(RefLines(text)) :
           IsLabelLine(RefLines(text)[k]) /\ LabelNameOf(RefLines(text)[k]) = name}))

\* the tokens of a bne with the last one replaced by the decimal offset
RewrittenTokens(text, line) ==
  LET t == SplitWhitespace(line) IN
  [t EXCEPT ![Len(t)] = Decimal(RefLabelOffset(text, LastToken(line)))]

\* C10: the encoder is called for instructions only, never for a label line;
\* for a bne whose label is defined it is handed the rewritten instruction
\* (the final token the decimal offset of the label), and every other
\* instruction unchanged.
C10_EncoderGetsPatchedBranches ==
  LET stream == FilteredStream(instruction) IN
  /\ \A k \in 1..Len(evals) :
       /\ IsInstruction(evals[k])
       /\ k <= Len(stream)
       /\ ~IsBne(stream[k]) => evals[k] = stream[k]
  /\ \A k \in 1..Len(stream) :
       (/\ CallEnded /\ Entered
        /\ IsBne(stream[k])
        /\ LastToken(stream[k]) \in DefinedLabels(instruction)
        /\ \A j \in 1..(k-1) : Accepted(stream[j]))
       => /\ Len(evals) >= k
          /\ SplitWhitespace(evals[k]) = RewrittenTokens(instruction, stream[k])

\* a u32 that lies in the range of the fault codes
InFaultRange(w) == w.hi = 0 /\ w.lo \in 12..22

\* C11: the value written to executed_instruction tells the outcome: every
\* fault other than an environment call has its own code in 12..22, no
\* executed instruction word is written as a value in 12..22, and only the
\* environment calls advance pc by 4 and write 0x73.
C11_FaultCodesAreUnambiguous ==
  /\ \A e \in OtherFaults :
       /\ FaultCode(e) \in 12..22
       /\ \A f \in OtherFaults : e # f => FaultCode(e) # FaultCode(f)
  /\ exec_result.kind = "Ok" => ~InFaultRange(executed_instruction)
  /\ exec_result.kind = "Err" =>
       IF exec_result.err \in EcallFaults
       THEN /\ executed_instruction = [hi |-> 0, lo |-> 115]
            /\ cpu_pc = exec_result.pc0 + 4
       ELSE /\ executed_instruction = [hi |-> 0, lo |-> FaultCode(exec_result.err)]
            /\ cpu_pc = exec_result.pc0

====
